---- MODULE Spec2Model ----
(***************************************************************************)
(* A model of r2dasm, the MStar Aeon R2 disassembler: the bit-template     *)
(* compiler (insn.py), the byte source (filebuffer.py) and the decode loop *)
(* (r2dasm.py).                                                            *)
(*                                                                         *)
(* Python integers that can exceed 31 bits (instruction words, template    *)
(* bits and masks) are bit vectors: sequences of bits, the least           *)
(* significant first.  Operand values are integers.                        *)
(* A Python "None" is the empty tuple and a present value x is <<x>>.      *)
(* A raised exception is a record [fault |-> <exception name>].            *)
(***************************************************************************)
EXTENDS Integers, Sequences, FiniteSets, TLC

VARIABLES
    file,       \* the bytes of the file under the FileBuffer
    fpos,       \* the file object's position
    f_len,      \* FileBuffer._len: None until __len__ has run
    table,      \* the template table dasm_at scans: references into TEMPLATES
    pc,         \* where dasm is: "start", "loop", "done", "fault"; "idle": not called
    offset,     \* dasm's cursor (0 while not bound)
    length,     \* dasm's local length (0 while not bound)
    out,        \* the lines dasm has printed
    err,        \* the exception that ended dasm, None if none
    t_in,       \* template construction: the arguments of R2InsnTemplate
    t_obj,      \* template construction: the object built, None before
    t_match,    \* the words t_obj.match accepts, None before
    t_vals,     \* per operand, value placed |-> value extracted, None before
    peer        \* a second dasm over a FileBuffer of its own: its file, fpos,
                \* f_len, pc, offset, length, out and err

vars == <<file, fpos, f_len, table, pc, offset, length, out, err,
          t_in, t_obj, t_match, t_vals, peer>>

dasmVars == <<file, fpos, f_len, table, pc, offset, length, out, err>>
templVars == <<t_in, t_obj, t_match, t_vals>>

----------------------------------------------------------------------------
(* Bounds of the model *)

\* longest byte stream given to dasm
MaxLen == 5
\* template strings drawn for construction have at most this many runs
MaxRuns == 3
\* longest table drawn from the overlapping pool
MaxTable == 3
\* longest byte stream decoded with a table drawn from the pool
MaxPoolLen == 3
\* template strings drawn with characters outside the alphabet have at most
\* this many runs
MaxCtorRuns == 2
\* longest byte stream given to each of two interleaved dasm
MaxPairLen == 3

----------------------------------------------------------------------------
(* Python values *)

None == <<>>
Some(x) == <<x>>
Get(o) == o[1]

Fault(name) == [fault |-> name]
IsFault(x) == DOMAIN x = {"fault"}

Min(a, b) == IF a <= b THEN a ELSE b
Max(a, b) == IF a >= b THEN a ELSE b

SetMax(S) == CHOOSE m \in S : \A x \in S : x <= m

RECURSIVE Pow2(_)
Pow2(n) == IF n = 0 THEN 1 ELSE 2 * Pow2(n - 1)

\* s[i] for a Python str, i counted from 0
Ch(s, i) == SubSeq(s, i + 1, i + 1)

\* the character of a template string at bit position p (0 = the last one)
TemplCh(str, p) == Ch(str, Len(str) - 1 - p)

\* s[a:b] for 0 <= a, 0 <= b: the slice is clamped to the sequence
PySlice(s, a, b) == SubSeq(s, a + 1, Min(b, Len(s)))

UPPER == "ABCDEFGHIJKLMNOPQRSTUVWXYZ"
LOWER == "abcdefghijklmnopqrstuvwxyz"

\* str.lower() of one character
LowerCh(c) ==
    IF \E i \in 0..(Len(UPPER) - 1) : Ch(UPPER, i) = c
    THEN Ch(LOWER, CHOOSE i \in 0..(Len(UPPER) - 1) : Ch(UPPER, i) = c)
    ELSE c

RECURSIVE Lower(_)
Lower(s) == IF Len(s) = 0 THEN "" ELSE LowerCh(Ch(s, 0)) \o Lower(SubSeq(s, 2, Len(s)))

\* set(s): the characters of a str
CharSet(s) == {Ch(s, i) : i \in 0..(Len(s) - 1)}

\* s.count(c) for a one-character c
Count(s, c) == Cardinality({i \in 0..(Len(s) - 1) : Ch(s, i) = c})

\* s.rfind(c, start, end) for a one-character c and 0 <= start, 0 <= end
RFind(s, c, start, end) ==
    LET hits == {i \in start..(Min(end, Len(s)) - 1) : Ch(s, i) = c}
    IN  IF hits = {} THEN -1 ELSE SetMax(hits)

----------------------------------------------------------------------------
(* Integers as bit vectors *)

\* A non-negative Python integer that may pass 31 bits is the sequence of its
\* bits, least significant first; bits beyond the sequence are 0, so one
\* integer has many sequences and integers are compared with IntEq.

Bit == {0, 1}

\* bit p of v, p counted from 0
BitAt(v, p) == IF p < Len(v) THEN v[p + 1] ELSE 0

\* a == b for integers
IntEq(a, b) == \A p \in 0..(Max(Len(a), Len(b)) - 1) : BitAt(a, p) = BitAt(b, p)

\* int(s, 2) for a str of '0' and '1'
IntBase2(s) == [i \in 1..Len(s) |-> IF TemplCh(s, i - 1) = "1" THEN 1 ELSE 0]

\* a & b
BitAnd(a, b) == [i \in 1..Min(Len(a), Len(b)) |-> a[i] * b[i]]
\* a | b
BitOr(a, b) ==
    [i \in 1..Max(Len(a), Len(b)) |->
        IF BitAt(a, i - 1) + BitAt(b, i - 1) > 0 THEN 1 ELSE 0]
\* a ^ b
BitXor(a, b) ==
    [i \in 1..Max(Len(a), Len(b)) |-> (BitAt(a, i - 1) + BitAt(b, i - 1)) % 2]

\* v >> n
ShiftRight(v, n) == SubSeq(v, n + 1, Len(v))
\* v << n
ShiftLeft(v, n) == [i \in 1..(Len(v) + n) |-> IF i <= n THEN 0 ELSE v[i - n]]
\* (1 << n) - 1
LowMask(n) == [i \in 1..n |-> 1]
\* 1 << n
OneBit(n) == [i \in 1..(n + 1) |-> IF i = n + 1 THEN 1 ELSE 0]

RECURSIVE IntOf(_)
\* the integer a bit vector stands for (below 2^31)
IntOf(v) == IF v = <<>> THEN 0 ELSE Head(v) + 2 * IntOf(Tail(v))

----------------------------------------------------------------------------
(* insn.py *)

\* the mutant of INSN_LENGTH_IDX: the entries of 0b100 and 0b101 exchanged
INSN_LENGTH_IDX_Exchanged == <<3, 3, 3, 3, 4, 2, 4, 4>>

INSN_LENGTH_IDX == <<3, 3, 3, 3, 2, 4, 4, 4>>

\* the mutant of VALID_ARGS: one more letter is allowed
VALID_ARGS_Wider == {"a", "b", "c", "d", "i", "j", "k", "n", "x", "y"}

VALID_ARGS == {"a", "b", "d", "i", "j", "k", "n", "x", "y"}

\* the mutant of BitRange: the two offsets are stored in each other's place
BitRange_Exchanged(len, insn_offset, value_offset) ==
    [length |-> len, insn_offset |-> value_offset, value_offset |-> insn_offset]

\* BitRange.__init__
BitRange(len, insn_offset, value_offset) ==
    [length |-> len, insn_offset |-> insn_offset, value_offset |-> value_offset]

\* the mutant of extract_part: the part is not moved to its place in the value
extract_part_Unplaced(self, instruction) ==
    BitAnd(ShiftRight(instruction, self.insn_offset), LowMask(self.length))

\* BitRange.extract_part
extract_part(self, instruction) ==
    LET value == BitAnd(ShiftRight(instruction, self.insn_offset), LowMask(self.length))
    IN  ShiftLeft(value, self.value_offset)

\* the while loop of R2OperandTemplate.__init__: the ranges it appends
RECURSIVE FindRanges(_, _, _, _, _)
FindRanges(template, arg, search_index, value_offset, ranges) ==
    IF search_index = -1 THEN ranges
    ELSE
      LET lsb_index == RFind(template, arg, 0, search_index)
      IN  IF lsb_index = -1 THEN ranges
          ELSE
            LET msb_index  == RFind(template, "-", 0, lsb_index) + 1
                run_length == lsb_index - msb_index + 1
                lsb_offset == Len(template) - lsb_index - 1
            IN  FindRanges(template, arg, msb_index - 1, value_offset + run_length,
                           Append(ranges, BitRange(run_length, lsb_offset, value_offset)))

RECURSIVE OnlyArg(_, _)
\* ''.join(arg if ch == arg else '-' for ch in template_lower)
OnlyArg(s, arg) ==
    IF Len(s) = 0 THEN ""
    ELSE (IF Ch(s, 0) = arg THEN arg ELSE "-") \o OnlyArg(SubSeq(s, 2, Len(s)), arg)

RECURSIVE MapChars(_, _, _, _)
\* ''.join(yes if ch in S else no for ch in s), when S holds no '0' or '1' itself
MapChars(s, S, yes, no) ==
    IF Len(s) = 0 THEN ""
    ELSE (IF Ch(s, 0) \in S THEN yes ELSE no) \o MapChars(SubSeq(s, 2, Len(s)), S, yes, no)

RECURSIVE KeepBits(_)
\* ''.join(ch if ch in {'0', '1'} else '0' for ch in s)
KeepBits(s) ==
    IF Len(s) = 0 THEN ""
    ELSE (IF Ch(s, 0) \in {"0", "1"} THEN Ch(s, 0) ELSE "0") \o KeepBits(SubSeq(s, 2, Len(s)))

\* R2OperandTemplate.__init__
R2OperandTemplate(arg, template, signed) ==
    IF arg \notin VALID_ARGS THEN Fault("AssertionError")
    ELSE
      LET template_lower == Lower(template)
      IN  IF arg \notin CharSet(template_lower) THEN Fault("AssertionError")
          ELSE
            LET own == OnlyArg(template_lower, arg)
            IN  [arg        |-> arg,
                 template   |-> own,
                 mask       |-> IntBase2(MapChars(own, {arg}, "1", "0")),
                 bit_length |-> Count(template, arg),
                 signed     |-> signed,
                 ranges     |-> FindRanges(own, arg, Len(own), 0, <<>>)]

R2Operand(template, value) ==
    [arg        |-> template.arg,
     bit_length |-> template.bit_length,
     signed     |-> template.signed,
     value      |-> value]

RECURSIVE OrParts(_, _, _)
\* the for loop of R2OperandTemplate.extract: value |= bit_range.extract_part(...)
OrParts(ranges, instruction, value) ==
    IF ranges = <<>> THEN value
    ELSE OrParts(Tail(ranges), instruction,
                 BitOr(value, extract_part(Head(ranges), instruction)))

\* the mutant of extract: every operand is read as signed
extract_AlwaysSigned(self, instruction) ==
    IF ~(self.bit_length > 0) THEN Fault("AssertionError")
    ELSE
      LET value    == OrParts(self.ranges, instruction, <<>>)
          sign_bit == OneBit(self.bit_length - 1)
      IN  IF ~IntEq(BitAnd(value, sign_bit), <<>>)
          THEN R2Operand(self, -(IntOf(BitXor(value, LowMask(self.bit_length))) + 1))
          ELSE R2Operand(self, IntOf(value))

\* R2OperandTemplate.extract
extract(self, instruction) ==
    IF ~(self.bit_length > 0) THEN Fault("AssertionError")
    ELSE
      LET value    == OrParts(self.ranges, instruction, <<>>)
          sign_bit == OneBit(self.bit_length - 1)
      IN  IF self.signed /\ ~IntEq(BitAnd(value, sign_bit), <<>>)
          THEN R2Operand(self, -(IntOf(BitXor(value, LowMask(self.bit_length))) + 1))
          ELSE R2Operand(self, IntOf(value))

\* R2InsnTemplate.__init__; args_format and signed are None or Some(...)
R2InsnTemplate(mnemonic, len, bits_template, args_format, signed) ==
    LET lowered == Lower(bits_template)
        args    == CharSet(lowered) \ {"0", "1"}
    IN  IF \/ mnemonic = ""
           \/ ~(len > 0)
           \/ bits_template = ""
           \/ len * 8 # Len(bits_template)
           \/ (args_format # None /\ Get(args_format) = "")
           \/ ~(args \subseteq VALID_ARGS)
           \/ (signed # None /\ ~(Get(signed) \subseteq args))
        THEN Fault("AssertionError")
        ELSE
          LET signed_args == IF signed # None THEN Get(signed) ELSE {}
          IN  [mnemonic      |-> mnemonic,
               length        |-> len,
               length_bits   |-> len * 8,
               bits_template |-> lowered,
               args_format   |-> IF args_format = None THEN "" ELSE Get(args_format),
               args          |-> args,
               signed_args   |-> signed_args,
               opr_templates |-> [arg \in args |->
                                    R2OperandTemplate(arg, lowered, arg \in signed_args)],
               bits          |-> IntBase2(KeepBits(lowered)),
               mask          |-> IntBase2(MapChars(lowered, {"0", "1"}, "1", "0"))]

\* the mutant of match: the mask is forgotten
match_NoMask(self, instruction) == IntEq(instruction, self.bits)

\* R2InsnTemplate.match
match(self, instruction) == IntEq(BitAnd(instruction, self.mask), self.bits)

\* R2Insn.__init__ (raw is assigned by dasm_at)
R2Insn(len, bits, template, args) ==
    [length |-> len, bits |-> bits, template |-> template, args |-> args, raw |-> <<>>]

\* INSNS of insn.py, in declaration order
INSNS == <<
    R2InsnTemplate("l.nop", 2, "1000000000000001", None, None),
    R2InsnTemplate("l.j", 2, "100100nnnnnnnnnn", Some("%n"), None),
    R2InsnTemplate("bt.trap", 2, "1000000000000010", Some("1"), None),
    R2InsnTemplate("l.jr?", 2, "100001xxxxxyyyyy", Some("??? r%x, r%y"), None),
    R2InsnTemplate("l.addi", 2, "100111dddddkkkkk", Some("r%d, r%d, %k"), Some({"k"})),
    R2InsnTemplate("l.andi?", 2, "100110dddddkkkkk", Some("r%d, r%d, %k"), Some({"k"})),
    R2InsnTemplate("l.nop", 3, "000000000000000000000000", None, None),
    R2InsnTemplate("l.lhz", 3, "000010dddddaaaaa00000001", Some("r%d, 0(r%a)"), None),
    R2InsnTemplate("l.sw", 3, "000011bbbbbaaaaa00000000", Some("0(r%a), r%b"), None),
    R2InsnTemplate("l.sfgtui", 3, "010111aaaaaiiiiiiii11011", Some("r%a, %i"), Some({"i"})),
    R2InsnTemplate("?entri?", 3, "010111xxxxyyyyyyyyy11000", Some("??? %x, %y"), None),
    R2InsnTemplate("l.addi", 3, "000111dddddaaaaakkkkkkkk", Some("r%d, r%a, %k"), Some({"k"})),
    R2InsnTemplate("l.bf", 3, "001000nnnnnnnnnnnnnnnn01", Some("%n"), Some({"n"})),
    R2InsnTemplate("l.movhi", 3, "001101100000000000000001", Some("r1, ???"), None),
    R2InsnTemplate("l.and", 3, "010001dddddaaaaabbbbb100", Some("r%d, r%a, r%b"), None),
    R2InsnTemplate("l.ori", 3, "010100aaaaabbbbbkkkkkkkk", Some("r%a, r%b, %k"), None),
    R2InsnTemplate("l.sfeqi", 3, "010111aaaaaiiiii00000001", Some("r%a, %i"), None),
    R2InsnTemplate("l.sfne", 3, "010111aaaaabbbbb00001101", Some("r%a, r%b"), None),
    R2InsnTemplate("l.sfgeu", 3, "010111bbbbbaaaaa00010111", Some("r%a, r%b"), None),
    R2InsnTemplate("l.mul", 3, "010000dddddaaaaabbbbb011", Some("r%d, r%a, r%b"), None),
    R2InsnTemplate("l.movhi", 4, "110000dddddkkkkkkkkkkkkkkkk00001", Some("r%d, %k"), None),
    R2InsnTemplate("l.mtspr", 4, "110000bbbbbaaaaakkkkkkkkkkkk1101", Some("r%a, r%b, %k"), None),
    R2InsnTemplate("l.mfspr", 4, "110000dddddaaaaakkkkkkkkkkkk1111", Some("r%d, r%a, %k"), None),
    R2InsnTemplate("l.andi", 4, "110001dddddaaaaakkkkkkkkkkkkkkkk", Some("r%d, r%a, %k"), None),
    R2InsnTemplate("l.ori", 4, "110010dddddaaaaakkkkkkkkkkkkkkkk", Some("r%d, r%a, %k"), None),
    R2InsnTemplate("l.j", 4, "111010nnnnnnnnnnnnnnnnnnnnnnnn11", Some("%n"), None),
    R2InsnTemplate("l.sw", 4, "111011bbbbbaaaaaiiiiiiiiiiiiiiii", Some("%i(r%a), r%b"), None),
    R2InsnTemplate("l.addi", 4, "111111dddddaaaaakkkkkkkkkkkkkkkk", Some("r%d, r%a, %k"), None),
    R2InsnTemplate("l.bf", 4, "11010100nnnnnnnnnnnnnnnnnnnnnnnn", Some("%n"), Some({"n"})),
    R2InsnTemplate("l.invalidate_line", 4, "11110100000aaaaa00000000000j0001", Some("0(r%a), %j"), None),
    R2InsnTemplate("l.invalidate_line", 4, "11110100000aaaaa00000000001j0111", Some("0(r%a), %j"), None),
    R2InsnTemplate("l.syncwritebuffer", 4, "11110100000000000000000000000101", None, None)
>>

\* INSNS of the package r2dasm (r2dasm/insn.py), built by the same constructor
INSNS_r2dasm == <<
    R2InsnTemplate("l.nop", 2, "1000000000000001", None, None),
    R2InsnTemplate("bt.trap", 2, "1000000000000010", Some("1"), None),
    R2InsnTemplate("l.jr?", 2, "100001xxxxxyyyyy", Some("??? r%x, r%y"), None),
    R2InsnTemplate("l.add?", 2, "100011dddddaaaaa", Some("r%d, r%d, r%a"), None),
    R2InsnTemplate("l.j", 2, "100100nnnnnnnnnn", Some("%n"), None),
    R2InsnTemplate("l.andi?", 2, "100110dddddkkkkk", Some("r%d, r%d, %k"), Some({"k"})),
    R2InsnTemplate("l.addi", 2, "100111dddddkkkkk", Some("r%d, r%d, %k"), Some({"k"})),
    R2InsnTemplate("l.nop", 3, "000000000000000000000000", None, None),
    R2InsnTemplate("l.movhi?", 3, "000001dddddkkkkkkkkkkkkk", Some("r%d, %k"), None),
    R2InsnTemplate("l.lhz", 3, "000010dddddaaaaa00000001", Some("r%d, 0(r%a)"), None),
    R2InsnTemplate("l.sw", 3, "000011bbbbbaaaaaiiiiii00", Some("%i(r%a), r%b"), Some({"i"})),
    R2InsnTemplate("l.lwz?", 3, "000011dddddaaaaaiiiiii10", Some("r%d, %i(r%a)"), Some({"i"})),
    R2InsnTemplate("l.lwz?", 3, "000100dddddaaaaaiiiiii00", Some("r%d, %i(r%a)"), Some({"i"})),
    R2InsnTemplate("l.sw?", 3, "000110bbbbbaaaaaiiiiii00", Some("%i(r%a), r%b"), Some({"i"})),
    R2InsnTemplate("l.addi", 3, "000111dddddaaaaakkkkkkkk", Some("r%d, r%a, %k"), Some({"k"})),
    R2InsnTemplate("l.bf", 3, "001000nnnnnnnnnnnnnnnn01", Some("%n"), Some({"n"})),
    R2InsnTemplate("?cmpjmp?", 3, "001001aaaaaiiinnnnnnnn01", Some("r%a, %i, %n"), Some({"n"})),
    R2InsnTemplate("l.movhi", 3, "001101100000000000000001", Some("r1, ???"), None),
    R2InsnTemplate("l.mul", 3, "010000dddddaaaaabbbbb011", Some("r%d, r%a, r%b"), None),
    R2InsnTemplate("l.and", 3, "010001dddddaaaaabbbbb100", Some("r%d, r%a, r%b"), None),
    R2InsnTemplate("l.or?", 3, "010001dddddaaaaabbbbb101", Some("r%d, r%a, r%b"), None),
    R2InsnTemplate("l.ori", 3, "010100dddddaaaaakkkkkkkk", Some("r%d, r%a, %k"), None),
    R2InsnTemplate("l.andi", 3, "010101dddddaaaaakkkkkkkk", Some("r%d, r%a, %k"), None),
    R2InsnTemplate("l.sfgtui", 3, "010111aaaaaiiiiiiii11011", Some("r%a, %i"), Some({"i"})),
    R2InsnTemplate("?entri?", 3, "010111xxxxyyyyyyyyy11000", Some("??? %x, %y"), None),
    R2InsnTemplate("l.sfeqi", 3, "010111aaaaaiiiii00000001", Some("r%a, %i"), None),
    R2InsnTemplate("l.sfne", 3, "010111aaaaabbbbb00001101", Some("r%a, r%b"), None),
    R2InsnTemplate("l.sfgeu", 3, "010111bbbbbaaaaa00010111", Some("r%a, r%b"), None),
    R2InsnTemplate("l.movhi", 4, "110000dddddkkkkkkkkkkkkkkkk00001", Some("r%d, %k"), None),
    R2InsnTemplate("l.mtspr", 4, "110000bbbbbaaaaakkkkkkkkkkkk1101", Some("r%a, r%b, %k"), None),
    R2InsnTemplate("l.mfspr", 4, "110000dddddaaaaakkkkkkkkkkkk1111", Some("r%d, r%a, %k"), None),
    R2InsnTemplate("l.andi", 4, "110001dddddaaaaakkkkkkkkkkkkkkkk", Some("r%d, r%a, %k"), None),
    R2InsnTemplate("l.ori", 4, "110010dddddaaaaakkkkkkkkkkkkkkkk", Some("r%d, r%a, %k"), None),
    R2InsnTemplate("l.bf", 4, "11010100nnnnnnnnnnnnnnnnnnnnnnnn", Some("%n"), Some({"n"})),
    R2InsnTemplate("l.jal?", 4, "111001nnnnnnnnnnnnnnnnnnnnnnnnnn", Some("%n"), Some({"n"})),
    R2InsnTemplate("l.j", 4, "111010nnnnnnnnnnnnnnnnnnnnnnnn11", Some("%n"), Some({"n"})),
    R2InsnTemplate("l.sw", 4, "111011bbbbbaaaaaiiiiiiiiiiiiii00", Some("%i(r%a), r%b"), Some({"i"})),
    R2InsnTemplate("l.lwz?", 4, "111011dddddaaaaaiiiiiiiiiiiiii10", Some("r%d, %i(r%a)"), Some({"i"})),
    R2InsnTemplate("l.addi", 4, "111111dddddaaaaakkkkkkkkkkkkkkkk", Some("r%d, r%a, %k"), None),
    R2InsnTemplate("l.invalidate_line", 4, "11110100000aaaaa00000000000j0001", Some("0(r%a), %j"), None),
    R2InsnTemplate("l.invalidate_line", 4, "11110100000aaaaa00000000001j0111", Some("0(r%a), %j"), None),
    R2InsnTemplate("l.syncwritebuffer", 4, "11110100000000000000000000000101", None, None)
>>

\* R2InsnTemplate.parse
parse(self, instruction) ==
    LET args == [arg \in DOMAIN self.opr_templates |->
                   extract(self.opr_templates[arg], instruction)]
    IN  IF \E arg \in DOMAIN args : IsFault(args[arg])
        THEN Fault("AssertionError")
        ELSE R2Insn(self.length, instruction, Some(self), Some(args))

HEXDIGITS == "0123456789abcdef"

RECURSIVE HexDigits(_)
HexDigits(n) ==
    IF n < 16 THEN Ch(HEXDIGITS, n)
    ELSE HexDigits(n \div 16) \o Ch(HEXDIGITS, n % 16)

\* f"{value:#x}"
FormatHex(value) ==
    IF value < 0 THEN "-0x" \o HexDigits(-value) ELSE "0x" \o HexDigits(value)

\* f"{value:d}"
FormatDec(value) == ToString(value)

RECURSIVE Spaces(_)
Spaces(n) == IF n <= 0 THEN "" ELSE " " \o Spaces(n - 1)

\* f"{s:12s}": s left-justified in 12 columns, never cut
Pad12(s) == s \o Spaces(12 - Len(s))

\* a str result, told apart from a raised exception
Text(str) == [text |-> str]

\* R2Insn.arg_subst for a match of (r?)%(.) with groups g1 and g2
arg_subst(self, g1, g2) ==
    IF g2 = "%" THEN Text("%")
    ELSE IF g2 \notin VALID_ARGS THEN Fault("AssertionError")
    ELSE IF self.args = None THEN Fault("AssertionError")
    ELSE IF g2 \notin DOMAIN Get(self.args) THEN Fault("AssertionError")
    ELSE
      LET value == Get(self.args)[g2].value
      IN  IF g1 = "r"
          THEN IF ~(value >= 0) THEN Fault("AssertionError")
               ELSE Text("r" \o FormatDec(value))
          ELSE Text(FormatHex(value))

\* a \o b for str results, an exception in either one being the result
Join(a, b) ==
    IF IsFault(a) THEN a ELSE IF IsFault(b) THEN b ELSE Text(a.text \o b.text)

RECURSIVE ReSub(_, _, _)
\* re.sub(r'(r?)%(.)', self.arg_subst, s) from index i on
ReSub(self, s, i) ==
    IF i >= Len(s) THEN Text("")
    ELSE IF Ch(s, i) = "r" /\ i + 2 < Len(s) /\ Ch(s, i + 1) = "%"
    THEN Join(arg_subst(self, "r", Ch(s, i + 2)), ReSub(self, s, i + 3))
    ELSE IF Ch(s, i) = "%" /\ i + 1 < Len(s)
    THEN Join(arg_subst(self, "", Ch(s, i + 1)), ReSub(self, s, i + 2))
    ELSE Join(Text(Ch(s, i)), ReSub(self, s, i + 1))

\* R2Insn.__str__: the str, or the exception raised
Str(self) ==
    IF self.template = None THEN Text("*unk*")
    ELSE Join(Text(Pad12(Get(self.template).mnemonic) \o " "),
              ReSub(self, Get(self.template).args_format, 0))

----------------------------------------------------------------------------
(* filebuffer.py: the file is a sequence of bytes and a position *)

\* the mutant of FileBuffer_len: _len is kept in the class, one cache for
\* every FileBuffer
FileBuffer_len_SharedCache(f, pos, cache) ==
    IF f_len = None
    THEN [value |-> Len(f), f_len |-> Some(Len(f)), fpos |-> pos]
    ELSE [value |-> Get(f_len), f_len |-> f_len, fpos |-> pos]

\* FileBuffer.__len__: the length, the cache and the position it leaves
FileBuffer_len(f, pos, cache) ==
    IF cache = None
    THEN LET orig_pos == pos
             end      == Len(f)
         IN  [value |-> end, f_len |-> Some(end), fpos |-> orig_pos]
    ELSE [value |-> Get(cache), f_len |-> cache, fpos |-> pos]

\* BufferedReader.read(size) at position pos: what is there, no more
FileRead(f, pos, size) == SubSeq(f, pos + 1, Min(pos + size, Len(f)))

\* FileBuffer.read: the bytes returned and the position it leaves
FileBuffer_read(f, off, size) ==
    LET pos == IF off >= 0 THEN off ELSE Len(f) + off
    IN  IF pos < 0 THEN Fault("OSError")
        ELSE LET data == FileRead(f, pos, size)
             IN  [data |-> data, fpos |-> pos + Len(data)]

----------------------------------------------------------------------------
(* r2dasm.py *)

\* the mutant of ZEROES: the padding bytes are not zero
ZEROES_Ones == <<255, 255, 255, 255>>

ZEROES == <<0, 0, 0, 0>>

\* struct format 'I': an unsigned integer of 32 bits
WordWidth == 32

\* bit i of a byte
ByteBit(b, i) == (b \div Pow2(i)) % 2

\* the mutant of UnpackWord: a short buffer is padded with zero bytes
UnpackWord_Padded(buf) ==
    LET full == SubSeq(buf \o <<0, 0, 0, 0>>, 1, 4)
    IN  [value |-> [i \in 1..WordWidth |-> ByteBit(full[4 - ((i - 1) \div 8)], (i - 1) % 8)]]

\* struct.unpack('>I', buf): big-endian, exactly 4 bytes
UnpackWord(buf) ==
    IF Len(buf) # 4 THEN Fault("struct.error")
    ELSE [value |-> [i \in 1..WordWidth |-> ByteBit(buf[4 - ((i - 1) \div 8)], (i - 1) % 8)]]

\* struct.unpack('B', buf): exactly 1 byte
UnpackByte(buf) ==
    IF Len(buf) # 1 THEN Fault("struct.error") ELSE [value |-> buf[1]]

RECURSIVE ScanTable_AnyLength(_, _, _, _)
\* the mutant of ScanTable: the length of a template is not looked at
ScanTable_AnyLength(insns, i, len, bits) ==
    IF i > Len(insns) THEN None
    ELSE IF match(insns[i], bits) THEN Some(insns[i])
    ELSE ScanTable_AnyLength(insns, i + 1, len, bits)

RECURSIVE ScanTable(_, _, _, _)
\* the for loop of dasm_at: the first template of the length that matches
ScanTable(insns, i, len, bits) ==
    IF i > Len(insns) THEN None
    ELSE IF insns[i].length # len THEN ScanTable(insns, i + 1, len, bits)
    ELSE IF match(insns[i], bits) THEN Some(insns[i])
    ELSE ScanTable(insns, i + 1, len, bits)

\* the mutant of Unknown: the instruction is given the longest length
Unknown_LongestLength(len, bits, raw) ==
    [R2Insn(4, bits, None, None) EXCEPT !.raw = raw]

\* dasm_at's "unknown instruction": insn = R2Insn(length, bits); insn.raw = raw
Unknown(len, bits, raw) ==
    [R2Insn(len, bits, None, None) EXCEPT !.raw = raw]

\* dasm_at over the bytes data that fbuf.read(offset, 4) returned
DecodeWindow(data, insns) ==
    LET first == UnpackByte(PySlice(data, 0, 1))
    IN  IF IsFault(first) THEN first
        ELSE
          LET ms_byte      == first.value
              length_index == ms_byte \div 32
              len          == INSN_LENGTH_IDX[length_index + 1]
              raw          == PySlice(data, 0, len)
              word         == UnpackWord(PySlice(ZEROES, 0, 4 - len) \o raw)
          IN  IF ~(0 < len /\ len <= 4) THEN Fault("AssertionError")
              ELSE IF IsFault(word) THEN word
              ELSE
                LET bits  == word.value
                    templ == ScanTable(insns, 1, len, bits)
                IN  IF templ # None
                    THEN LET insn == parse(Get(templ), bits)
                         IN  IF IsFault(insn) THEN insn
                             ELSE [insn EXCEPT !.raw = raw]
                    ELSE Unknown(len, bits, raw)

\* dasm_at: the instruction returned, or the exception raised
dasm_at(f, off, insns) ==
    IF ~(off >= 0) THEN Fault("AssertionError")
    ELSE LET rd == FileBuffer_read(f, off, 4)
         IN  IF IsFault(rd) THEN rd ELSE DecodeWindow(rd.data, insns)

----------------------------------------------------------------------------
(* The decode loop as a state machine *)

\* the byte values streams are drawn from: first bytes of each length class
\* (0x00, 0x01, 0x1f: 3 bytes; 0x80: 2 bytes; 0xf4: 4 bytes)
ByteVals == {0, 1, 31, 128, 244}

Streams == UNION {[1..n -> ByteVals] : n \in 0..MaxLen}

\* templates that overlap on purpose, for tables other than the static one:
\* three 2-byte templates that all match 0x8001, and a 3-byte template whose
\* mask and bits also match the zero-extended 2-byte word 0x8001
POOL == <<
    R2InsnTemplate("ov.nop", 2, "1000000000000001", None, None),
    R2InsnTemplate("ov.k", 2, "10000000000000kk", Some("%k"), None),
    R2InsnTemplate("ov.x", 2, "100000000000xxxx", Some("%x"), None),
    R2InsnTemplate("ov.y", 3, "0000000010000000000000yy", Some("%y"), None)
>>

\* the templates a table can refer to: the static table, then the pool, then
\* the static table of the package
TEMPLATES == INSNS \o POOL \o INSNS_r2dasm

PoolRefs == (Len(INSNS) + 1)..(Len(INSNS) + Len(POOL))

\* the tables drawn from the pool: each template at most once, in any order
PoolTables ==
    {t \in UNION {[1..n -> PoolRefs] : n \in 0..MaxTable} :
        \A i, j \in DOMAIN t : i # j => t[i] # t[j]}

\* the streams decoded with the pool tables
PoolByteVals == {0, 1, 128}
PoolStreams == UNION {[1..n -> PoolByteVals] : n \in 0..MaxPoolLen}

\* the streams whose first byte is any byte
TailVals == {0, 1, 255}
FirstByteStreams ==
    {<<b>> \o t : b \in 0..255, t \in UNION {[1..n -> TailVals] : n \in 0..3}}

\* the template objects a table refers to, in its order
Deref(refs) == [i \in DOMAIN refs |-> TEMPLATES[refs[i]]]

\* the mutant of StaticTable: two templates of the pool, which match words
\* that templates of INSNS match, are in the table as well
StaticTable_WithPool == [i \in 1..(Len(INSNS) + 2) |-> i]

\* the static table: every template of INSNS, in declaration order
StaticTable == [i \in 1..Len(INSNS) |-> i]

\* the static table of the package: every template of it, in declaration order
StaticTable_r2dasm == [i \in 1..Len(INSNS_r2dasm) |-> Len(INSNS) + Len(POOL) + i]

\* a second dasm that is not called
PeerIdle ==
    [file |-> <<>>, fpos |-> 0, f_len |-> None, pc |-> "idle",
     offset |-> 0, length |-> 0, out |-> <<>>, err |-> None]

TemplIdle ==
    /\ t_in = None
    /\ t_obj = None
    /\ t_match = None
    /\ t_vals = None

\* a FileBuffer over an open file, dasm not yet called: its locals offset and
\* length are not bound yet and are read by no step before DasmBegin binds them
DasmInit(streams, tables) ==
    /\ file \in streams
    /\ fpos = 0
    /\ f_len = None
    /\ table \in tables
    /\ pc = "start"
    /\ offset = 0
    /\ length = 0
    /\ out = <<>>
    /\ err = None
    /\ TemplIdle
    /\ peer = PeerIdle

Init == DasmInit(Streams, {StaticTable})

\* the mutant of LoopCond: one iteration too many
LoopCond_Inclusive(off, len) == off <= len

\* while offset < length
LoopCond(off, len) == off < len

\* the mutant of Advance: the cursor moves by the longest length
Advance_Longest(off, insn) == off + 4

\* offset += insn.length
Advance(off, insn) == off + insn.length

\* the line dasm prints for an instruction
Line(off, insn, text) == [offset |-> off, raw |-> insn.raw, text |-> text, insn |-> insn]

\* dasm up to the loop: offset = 0; length = len(fbuf)
DasmBegin ==
    /\ pc = "start"
    /\ LET n == FileBuffer_len(file, fpos, f_len)
       IN  /\ offset' = 0
           /\ length' = n.value
           /\ f_len' = n.f_len
           /\ fpos' = n.fpos
    /\ pc' = "loop"
    /\ UNCHANGED <<file, table, out, err, templVars, peer>>

\* the body of the loop up to print: the line printed, or the exception that
\* dasm_at or the rendering of the instruction raises
LoopBody(f, off, insns) ==
    LET insn == dasm_at(f, off, insns)
    IN  IF IsFault(insn) THEN insn
        ELSE LET text == Str(insn)
             IN  IF IsFault(text) THEN text ELSE Line(off, insn, text.text)

\* one iteration of the loop that prints a line and moves the cursor
DasmStep ==
    /\ pc = "loop"
    /\ LoopCond(offset, length)
    /\ \E line \in {LoopBody(file, offset, Deref(table))} :
          /\ ~IsFault(line)
          /\ out' = Append(out, line)
          /\ offset' = Advance(offset, line.insn)
    /\ fpos' = FileBuffer_read(file, offset, 4).fpos
    /\ UNCHANGED <<file, f_len, table, pc, length, err, templVars, peer>>

\* one iteration of the loop that raises: the exception leaves dasm
DasmRaise ==
    /\ pc = "loop"
    /\ LoopCond(offset, length)
    /\ \E line \in {LoopBody(file, offset, Deref(table))} :
          /\ IsFault(line)
          /\ err' = Some(line.fault)
    /\ fpos' = FileBuffer_read(file, offset, 4).fpos
    /\ pc' = "fault"
    /\ UNCHANGED <<file, f_len, table, offset, length, out, templVars, peer>>

\* the loop condition fails: dasm returns
DasmReturn ==
    /\ pc = "loop"
    /\ ~LoopCond(offset, length)
    /\ pc' = "done"
    /\ UNCHANGED <<file, fpos, f_len, table, offset, length, out, err, templVars, peer>>

----------------------------------------------------------------------------
(* Building one template and applying it, as the static table does for each
   of its entries and dasm_at for each word *)

\* the characters template strings are drawn from: fixed bits and two operands
TemplAlphabet == {"0", "1", "a", "k"}
\* the byte lengths drawn
TemplLengths == {1}
\* the signed sets drawn
TemplSigned == {None, Some({"k"})}

RECURSIVE Rep(_, _)
Rep(c, n) == IF n = 0 THEN "" ELSE c \o Rep(c, n - 1)

RECURSIVE RunStrings(_, _)
\* the strings of n characters made of at most r runs
RunStrings(n, r) ==
    IF n = 0 THEN {""}
    ELSE IF r = 0 THEN {}
    ELSE UNION {{Rep(c, k) \o rest : rest \in RunStrings(n - k, r - 1)} :
                   c \in TemplAlphabet, k \in 1..n}

DasmIdle ==
    /\ file = <<>>
    /\ fpos = 0
    /\ f_len = None
    /\ table = StaticTable
    /\ pc = "idle"
    /\ offset = 0
    /\ length = 0
    /\ out = <<>>
    /\ err = None
    /\ peer = PeerIdle

InitTempl ==
    /\ DasmIdle
    /\ t_in \in {Some([mnemonic |-> "t", length |-> n, bits_template |-> str,
                       args_format |-> None, signed |-> sg]) :
                    n \in TemplLengths, str \in RunStrings(8, MaxRuns), sg \in TemplSigned}
    /\ t_obj = None
    /\ t_match = None
    /\ t_vals = None

\* the words of n bits
Words(n) == [1..n -> Bit]

\* the bit positions of a template string that hold the character c
PositionsOf(str, c) == {p \in 0..(Len(str) - 1) : TemplCh(str, p) = c}

\* the values an operand of n bits stands for
OperandValues(n, signed) ==
    IF signed THEN (0 - Pow2(n - 1))..(Pow2(n - 1) - 1) ELSE 0..(Pow2(n) - 1)

\* the word with the two's-complement pattern of v at the positions of c, in
\* natural order, and the bit fill at every other position of the string
Place(str, c, v, fill) ==
    LET P   == PositionsOf(str, c)
        pat == IF v < 0 THEN v + Pow2(Cardinality(P)) ELSE v
    IN  [i \in 1..Len(str) |->
           IF i - 1 \in P THEN (pat \div Pow2(Cardinality({q \in P : q < i - 1}))) % 2
           ELSE fill]

\* R2InsnTemplate(...), as each entry of INSNS is built
TemplConstruct ==
    /\ t_in # None
    /\ t_obj = None
    /\ t_obj' = Some(R2InsnTemplate(Get(t_in).mnemonic, Get(t_in).length,
                                     Get(t_in).bits_template, Get(t_in).args_format,
                                     Get(t_in).signed))
    /\ UNCHANGED <<dasmVars, peer, t_in, t_match, t_vals>>

\* match on every word of the template's width, and extract on every value of
\* every operand placed in a word of ones
TemplApply ==
    /\ t_obj # None
    /\ ~IsFault(Get(t_obj))
    /\ t_match = None
    /\ LET t == Get(t_obj)
       IN  /\ t_match' = Some({IntOf(w) : w \in {x \in Words(t.length_bits) : match(t, x)}})
           /\ t_vals' = Some([c \in t.args |->
                  [v \in OperandValues(Cardinality(PositionsOf(t.bits_template, c)),
                                       t.opr_templates[c].signed) |->
                      extract(t.opr_templates[c], Place(t.bits_template, c, v, 1))]])
    /\ UNCHANGED <<dasmVars, peer, t_in, t_obj>>

NextTempl == TemplConstruct \/ TemplApply

SpecTempl == InitTempl /\ [][NextTempl]_vars

\* the arguments R2InsnTemplate is given when a table author gets them wrong:
\* a letter outside VALID_ARGS, an uppercase letter, a byte length that does
\* not fit the string, a signed letter the string lacks, an empty format
CtorAlphabet == {"0", "1", "a", "k", "c", "A"}
CtorLengths == {1, 2}
CtorSigned == {None, Some({"k"})}
CtorFormats == {None, Some(""), Some("%k")}

RECURSIVE RunStringsOver(_, _, _)
\* the strings of n characters of A made of at most r runs
RunStringsOver(A, n, r) ==
    IF n = 0 THEN {""}
    ELSE IF r = 0 THEN {}
    ELSE UNION {{Rep(c, k) \o rest : rest \in RunStringsOver(A, n - k, r - 1)} :
                   c \in A, k \in 1..n}

InitCtor ==
    /\ DasmIdle
    /\ t_in \in {Some([mnemonic |-> "t", length |-> n, bits_template |-> str,
                       args_format |-> fmt, signed |-> sg]) :
                    n \in CtorLengths, str \in RunStringsOver(CtorAlphabet, 8, MaxCtorRuns),
                    fmt \in CtorFormats, sg \in CtorSigned}
    /\ t_obj = None
    /\ t_match = None
    /\ t_vals = None

SpecCtor == InitCtor /\ [][NextTempl]_vars

\* how the operand bits of a word are filled
RenderFills == {"zeros", "ones", "alternate"}

FillBit(fill, p) ==
    IF fill = "zeros" THEN 0 ELSE IF fill = "ones" THEN 1 ELSE p % 2

\* a word a template matches: its fixed bits, and the fill at operand positions
TemplateWord(t, fill) ==
    [i \in 1..Len(t.bits_template) |->
        LET ch == TemplCh(t.bits_template, i - 1)
        IN  IF ch = "0" THEN 0 ELSE IF ch = "1" THEN 1 ELSE FillBit(fill, i - 1)]

\* the bytes of a word, most significant first
WordBytes(w) ==
    LET n == Len(w) \div 8
    IN  [j \in 1..n |->
           LET lo == (n - j) * 8
           IN  w[lo + 1] + 2 * w[lo + 2] + 4 * w[lo + 3] + 8 * w[lo + 4]
               + 16 * w[lo + 5] + 32 * w[lo + 6] + 64 * w[lo + 7] + 128 * w[lo + 8]]

\* the templates of the two static tables
StaticRefs == {StaticTable[i] : i \in DOMAIN StaticTable}
                 \cup {StaticTable_r2dasm[i] : i \in DOMAIN StaticTable_r2dasm}

\* one instruction for every static template and fill, whole
WholeStreams == {WordBytes(TemplateWord(TEMPLATES[r], f)) : r \in StaticRefs, f \in RenderFills}

\* the streams decoded for rendering: the whole instructions, and each without
\* its last byte
RenderStreams == WholeStreams \cup {SubSeq(s, 1, Len(s) - 1) : s \in WholeStreams}

Next == DasmBegin \/ DasmStep \/ DasmRaise \/ DasmReturn

Spec == Init /\ [][Next]_vars

\* the loop is at an iteration: the condition of the while holds
Iterating == pc = "loop" /\ LoopCond(offset, length)

\* dasm is straight-line sequential code: a step that can be taken is taken.
\* An iteration can be taken exactly when Iterating holds, its body yielding a
\* line or an exception, so weak fairness of the iteration is stated with
\* Iterating for its enabling condition.
FairSpec ==
    /\ Spec
    /\ WF_vars(DasmBegin)
    /\ WF_vars(DasmReturn)
    /\ ([]<>(~Iterating) \/ []<><<DasmStep \/ DasmRaise>>_vars)

\* decoding streams that start with any byte
InitFirstByte == DasmInit(FirstByteStreams, {StaticTable})
SpecFirstByte == InitFirstByte /\ [][Next]_vars

\* decoding with tables of deliberately overlapping templates
InitPool == DasmInit(PoolStreams, PoolTables)
SpecPool == InitPool /\ [][Next]_vars

\* the second dasm up to the loop
PeerBegin ==
    /\ peer.pc = "start"
    /\ LET n == FileBuffer_len(peer.file, peer.fpos, peer.f_len)
       IN  peer' = [peer EXCEPT !.offset = 0, !.length = n.value, !.f_len = n.f_len,
                                !.fpos = n.fpos, !.pc = "loop"]
    /\ UNCHANGED <<dasmVars, templVars>>

\* one iteration of the second dasm that prints a line and moves its cursor
PeerStep ==
    /\ peer.pc = "loop"
    /\ LoopCond(peer.offset, peer.length)
    /\ \E line \in {LoopBody(peer.file, peer.offset, Deref(table))} :
          /\ ~IsFault(line)
          /\ peer' = [peer EXCEPT !.out = Append(peer.out, line),
                                  !.offset = Advance(peer.offset, line.insn),
                                  !.fpos = FileBuffer_read(peer.file, peer.offset, 4).fpos]
    /\ UNCHANGED <<dasmVars, templVars>>

\* one iteration of the second dasm that raises
PeerRaise ==
    /\ peer.pc = "loop"
    /\ LoopCond(peer.offset, peer.length)
    /\ \E line \in {LoopBody(peer.file, peer.offset, Deref(table))} :
          /\ IsFault(line)
          /\ peer' = [peer EXCEPT !.err = Some(line.fault), !.pc = "fault",
                                  !.fpos = FileBuffer_read(peer.file, peer.offset, 4).fpos]
    /\ UNCHANGED <<dasmVars, templVars>>

\* the loop condition of the second dasm fails: it returns
PeerReturn ==
    /\ peer.pc = "loop"
    /\ ~LoopCond(peer.offset, peer.length)
    /\ peer' = [peer EXCEPT !.pc = "done"]
    /\ UNCHANGED <<dasmVars, templVars>>

\* two dasm over FileBuffers of their own, sharing the static table, their
\* steps interleaved in any order
PairByteVals == {1, 128}
PairStreams == UNION {[1..n -> PairByteVals] : n \in 0..MaxPairLen}

InitPair ==
    /\ file \in PairStreams
    /\ fpos = 0
    /\ f_len = None
    /\ table = StaticTable
    /\ pc = "start"
    /\ offset = 0
    /\ length = 0
    /\ out = <<>>
    /\ err = None
    /\ TemplIdle
    /\ peer \in {[PeerIdle EXCEPT !.file = f, !.pc = "start"] : f \in PairStreams}

NextPair == Next \/ PeerBegin \/ PeerStep \/ PeerRaise \/ PeerReturn

SpecPair == InitPair /\ [][NextPair]_vars

\* decoding streams in which the same windows come again at other offsets,
\* with either static table
WindowByteVals == {0, 1, 132}
WindowStreams == UNION {[1..n -> WindowByteVals] : n \in 0..MaxLen}
InitWindow == DasmInit(WindowStreams, {StaticTable, StaticTable_r2dasm})
SpecWindow == InitWindow /\ [][Next]_vars

\* decoding one instruction of every static template, with either static table
InitRender == DasmInit(RenderStreams, {StaticTable, StaticTable_r2dasm})
SpecRender == InitRender /\ [][Next]_vars

----------------------------------------------------------------------------
(* What the claims speak of, stated from the bytes of the stream *)

Last(s) == s[Len(s)]

\* the length class of a first byte: its top 3 bits 0..3, 4, 5..7
ClassLen(b) ==
    IF b \div 32 \in 0..3 THEN 3 ELSE IF b \div 32 = 4 THEN 2 ELSE 4

\* the n bytes of the stream from off on
WindowAt(off, n) == SubSeq(file, off + 1, off + n)

\* the cursor is inside the stream and the instruction there is cut short
TruncatedAt(off) ==
    /\ off < Len(file)
    /\ Len(file) - off < ClassLen(file[off + 1])

RECURSIVE CleanFrom(_)
\* no instruction from off on is cut short by the end of the stream
CleanFrom(off) ==
    IF off >= Len(file) THEN TRUE
    ELSE IF TruncatedAt(off) THEN FALSE
    ELSE CleanFrom(off + ClassLen(file[off + 1]))

\* bit p of the big-endian word of the n bytes at off
WindowBit(off, n, p) == ByteBit(file[off + n - (p \div 8)], p % 8)

\* the complete window at off agrees with every '0' and '1' of a template string
AgreesAt(str, off) ==
    LET n == ClassLen(file[off + 1])
    IN  \A p \in 0..(Min(Len(str), 8 * n) - 1) :
           /\ TemplCh(str, p) = "0" => WindowBit(off, n, p) = 0
           /\ TemplCh(str, p) = "1" => WindowBit(off, n, p) = 1

\* the places of the table whose template has the window's length and agrees
MatchingAt(off) ==
    {k \in DOMAIN table :
        /\ TEMPLATES[table[k]].length = ClassLen(file[off + 1])
        /\ AgreesAt(TEMPLATES[table[k]].bits_template, off)}

\* the cursor after line i was printed
CursorAfter(i) == IF i < Len(out) THEN out[i + 1].offset ELSE offset

Started == pc \in {"loop", "done", "fault"}

----------------------------------------------------------------------------
(* The claims *)

\* C1: the cursor starts at 0; every line is the instruction decoded at the
\* cursor, of length 2, 3 or 4, and the cursor then stands right after it: the
\* lines tile the stream from 0 on, never going back, no byte in two of them.
C1_CursorAdvances ==
    Started =>
      /\ offset = IF out = <<>> THEN 0 ELSE Last(out).offset + Last(out).insn.length
      /\ \A i \in DOMAIN out :
            /\ out[i].offset = IF i = 1 THEN 0
                               ELSE out[i - 1].offset + out[i - 1].insn.length
            /\ out[i].insn.length \in {2, 3, 4}
            /\ out[i].insn.raw = WindowAt(out[i].offset, out[i].insn.length)
      /\ \A i, j \in DOMAIN out :
            i < j => out[i].offset + out[i].insn.length <= out[j].offset

\* C1's case: a 2-byte and a 3-byte instruction decoded one after the other
C1_Witness ==
    /\ pc = "done"
    /\ Len(out) = 2
    /\ out[1].insn.length = 2
    /\ out[2].insn.length = 3
    /\ out[2].offset = 2

\* C2: a window that no template of its length matches is printed as an
\* unrecognized instruction of the classified length with the window's bytes,
\* no template, no operands and the text *unk*; the cursor moves by that length
\* and the loop goes on: it returns only at the end of the stream and fails
\* only at a truncated tail.
C2_UnknownInsn ==
    Started =>
      /\ \A i \in DOMAIN out :
            MatchingAt(out[i].offset) = {} =>
              LET n == ClassLen(file[out[i].offset + 1])
              IN  /\ out[i].insn.length = n
                  /\ out[i].insn.raw = WindowAt(out[i].offset, n)
                  /\ Len(out[i].insn.raw) = n
                  /\ out[i].insn.template = None
                  /\ out[i].insn.args = None
                  /\ out[i].text = "*unk*"
                  /\ CursorAfter(i) = out[i].offset + n
      /\ pc = "done" => offset >= Len(file)
      /\ pc = "fault" => TruncatedAt(offset)

\* C2's case: an unrecognized instruction, and a recognized one decoded after it
C2_Witness ==
    /\ Len(out) = 2
    /\ MatchingAt(out[1].offset) = {}
    /\ out[1].text = "*unk*"
    /\ out[2].insn.template # None

\* C3: every instruction printed has the length its first byte's top 3 bits
\* give (0..3: 3 bytes, 4: 2 bytes, 5..7: 4 bytes) and that many raw bytes,
\* whether a template matched or not.
C3_LengthClass ==
    \A i \in DOMAIN out :
       /\ out[i].insn.length = ClassLen(file[out[i].offset + 1])
       /\ Len(out[i].insn.raw) = ClassLen(file[out[i].offset + 1])

\* C3's case: a first byte of each class has been decoded, recognized or not
C3_Witness ==
    /\ Len(out) = 1
    /\ file[1] = 159
    /\ out[1].insn.length = 2
    /\ out[1].insn.template # None

\* C4: the template of a printed instruction is the first one, in the order of
\* the table, among the templates of the window's length that agree with the
\* window, and none if there is no such template; a template of another
\* length is never the result.
C4_FirstMatchWins ==
    \A i \in DOMAIN out :
       LET m == MatchingAt(out[i].offset)
       IN  /\ m = {} => out[i].insn.template = None
           /\ m # {} =>
                 out[i].insn.template = Some(TEMPLATES[table[CHOOSE k \in m : \A x \in m : k <= x]])
           /\ out[i].insn.template # None =>
                 Get(out[i].insn.template).length = ClassLen(file[out[i].offset + 1])

\* C4's case: two templates of the window's length agree with it, and a
\* template of another length declared before them matches the word too
C4_Witness ==
    /\ Len(out) >= 1
    /\ Cardinality(MatchingAt(0)) >= 2
    /\ \E k \in DOMAIN table :
          /\ \A x \in MatchingAt(0) : k < x
          /\ TEMPLATES[table[k]].length # out[1].insn.length
          /\ match(TEMPLATES[table[k]], out[1].insn.bits)

\* the template string a template object was built from
BuiltFrom == Get(t_in).bits_template

Built == t_obj # None /\ ~IsFault(Get(t_obj))

\* a word agrees with every '0' and '1' of a template string
AgreesWith(str, w) ==
    \A p \in 0..(Len(str) - 1) :
       /\ TemplCh(str, p) = "0" => BitAt(w, p) = 0
       /\ TemplCh(str, p) = "1" => BitAt(w, p) = 1

\* C5: bits is the template string with every operand letter read as 0, mask
\* has a 1 exactly at the '0' and '1' positions, and match accepts exactly the
\* words that agree with the string at those positions.
C5_MatchFixedBits ==
    /\ Built =>
          \A p \in 0..(Max(Len(Get(t_obj).bits), Len(Get(t_obj).mask)) + Len(BuiltFrom)) :
             /\ BitAt(Get(t_obj).bits, p) = 1 <=>
                   (p < Len(BuiltFrom) /\ TemplCh(BuiltFrom, p) = "1")
             /\ BitAt(Get(t_obj).mask, p) = 1 <=>
                   (p < Len(BuiltFrom) /\ TemplCh(BuiltFrom, p) \in {"0", "1"})
    /\ t_match # None =>
          Get(t_match) = {IntOf(w) : w \in {x \in Words(Len(BuiltFrom)) : AgreesWith(BuiltFrom, x)}}

\* C5's case: a template with fixed and operand positions, matched against
\* every word: the 16 words that differ only at the operand are accepted
C5_Witness ==
    /\ t_match # None
    /\ BuiltFrom = "11kkkk00"
    /\ Cardinality(Get(t_match)) = 16

\* the instruction positions a bit range covers
Covered(r) == r.insn_offset..(r.insn_offset + r.length - 1)

\* C6: the bit ranges of every operand template cover pairwise disjoint
\* positions whose union is exactly the positions of the operand's letter.
C6_RangesPartition ==
    Built =>
      \A c \in DOMAIN Get(t_obj).opr_templates :
         LET ranges == Get(t_obj).opr_templates[c].ranges
         IN  /\ \A i, j \in DOMAIN ranges :
                   i # j => Covered(ranges[i]) \cap Covered(ranges[j]) = {}
             /\ UNION {Covered(ranges[i]) : i \in DOMAIN ranges} = PositionsOf(BuiltFrom, c)

\* C6's case: an operand in two runs, one at the most and one at the least
\* significant bit, around another operand
C6_Witness ==
    /\ Built
    /\ BuiltFrom = "aakkkkka"
    /\ Len(Get(t_obj).opr_templates["a"].ranges) = 2

\* C7: extract returns every value placed at the operand's positions: each
\* of 0 .. 2^n - 1 for an unsigned operand of n bits, each of
\* -2^(n-1) .. 2^(n-1) - 1 for a signed one.
C7_ExtractRoundTrip ==
    t_vals # None =>
      \A c \in DOMAIN Get(t_vals) :
         /\ DOMAIN Get(t_vals)[c] =
               OperandValues(Cardinality(PositionsOf(BuiltFrom, c)),
                             Get(t_in).signed # None /\ c \in Get(Get(t_in).signed))
         /\ \A v \in DOMAIN Get(t_vals)[c] :
               /\ ~IsFault(Get(t_vals)[c][v])
               /\ Get(t_vals)[c][v].value = v

\* C7's case: a signed operand in two runs, with its least value extracted
C7_Witness ==
    /\ t_vals # None
    /\ BuiltFrom = "kkk1kkkk"
    /\ Get(t_in).signed = Some({"k"})
    /\ Get(t_vals)["k"][0 - 64].value = 0 - 64

\* a stream no instruction of which is cut short
Clean == CleanFrom(0)

\* C8: dasm ends; on a stream with no truncated tail it returns with the
\* cursor at or past the length after at most length / 2 lines; and no line is
\* printed and the cursor does not move once the cursor is at or past the length.
C8_Terminates ==
    /\ <>(pc \in {"done", "fault"})
    /\ Clean => <>(pc = "done" /\ offset >= length /\ 2 * Len(out) <= length)
    /\ [][(pc = "loop" /\ offset >= length) => (out' = out /\ offset' = offset)]_vars
    /\ [][(pc \in {"done", "fault"}) => (vars' = vars)]_vars

\* C8's case: a stream of two instructions decoded to its end
C8_Witness ==
    /\ pc = "done"
    /\ Clean
    /\ Len(out) = 2
    /\ offset = length
    /\ length = 5

\* C9: at a truncated tail the step raises struct.error and prints nothing:
\* no line with fewer raw bytes, of another length, or with padded bytes.
C9_TruncatedTailFails ==
    [][(pc = "loop" /\ TruncatedAt(offset)) =>
          /\ pc' = "fault"
          /\ err' = Some("struct.error")
          /\ out' = out
          /\ offset' = offset]_vars

\* C9's case: a stream whose last instruction is cut short was decoded up to it
C9_Witness ==
    /\ pc = "fault"
    /\ Len(out) = 1
    /\ TruncatedAt(offset)
    /\ Len(file) - offset = 2

\* C10 as claimed: a read that reaches past the end of the source fails, so no
\* line comes from a read of 4 bytes with fewer than 4 bytes left.
C10_ReadPastEndFails ==
    \A i \in DOMAIN out : out[i].offset + 4 <= Len(file)

\* the template string of t_in has a character that str.lower() does not
\* turn into '0', '1' or a letter of VALID_ARGS
IllegalLowered ==
    \E i \in 0..(Len(BuiltFrom) - 1) :
       LowerCh(Ch(BuiltFrom, i)) \notin {"0", "1", "a", "b", "d", "i", "j", "k", "n", "x", "y"}

\* a letter of the signed set is no letter of the lowered template string
SignedMissing ==
    /\ Get(t_in).signed # None
    /\ \E c \in Get(Get(t_in).signed) :
          \A i \in 0..(Len(BuiltFrom) - 1) : LowerCh(Ch(BuiltFrom, i)) # c

LengthMismatch == Len(BuiltFrom) # Get(t_in).length * 8

Constructed == t_obj # None

\* C11, amended: construction raises AssertionError exactly when the string's
\* length is not 8 times the byte length, or the string lowered by str.lower()
\* has a character other than '0', '1' and the letters of VALID_ARGS, or a
\* letter of the signed set is not in the lowered string, or the format is the
\* empty string; otherwise it succeeds and every operand has bit_length > 0.
C11_ConstructionFaults ==
    Constructed =>
      /\ IsFault(Get(t_obj)) <=>
            \/ LengthMismatch
            \/ IllegalLowered
            \/ SignedMissing
            \/ Get(t_in).args_format = Some("")
      /\ IsFault(Get(t_obj)) => Get(t_obj) = Fault("AssertionError")
      /\ ~IsFault(Get(t_obj)) =>
            \A c \in DOMAIN Get(t_obj).opr_templates :
               /\ ~IsFault(Get(t_obj).opr_templates[c])
               /\ Get(t_obj).opr_templates[c].bit_length > 0

\* C11's case: a signed letter that the string lacks ends construction, and
\* so does a letter outside VALID_ARGS
C11_Witness ==
    /\ Constructed
    /\ IsFault(Get(t_obj))
    /\ BuiltFrom = "aaaa0000"
    /\ Get(t_in).length = 1
    /\ Get(t_in).signed = Some({"k"})
    /\ Get(t_in).args_format = None

\* C11 as claimed: construction fails exactly when the length differs, or the
\* string itself has a character other than '0', '1' and the letters of
\* VALID_ARGS, or a signed letter does not occur in the string.
C11_AsClaimed ==
    Constructed =>
      (IsFault(Get(t_obj)) <=>
         \/ LengthMismatch
         \/ \E i \in 0..(Len(BuiltFrom) - 1) :
               Ch(BuiltFrom, i) \notin {"0", "1", "a", "b", "d", "i", "j", "k", "n", "x", "y"}
         \/ /\ Get(t_in).signed # None
            /\ \E c \in Get(Get(t_in).signed) :
                  \A i \in 0..(Len(BuiltFrom) - 1) : Ch(BuiltFrom, i) # c)

RECURSIVE PlaceholdersFrom(_, _)
\* the placeholders of a format from index i on, as re.sub finds them left to
\* right: <<"r", c>> for r%c and <<"", c>> for %c
PlaceholdersFrom(fmt, i) ==
    IF i >= Len(fmt) THEN {}
    ELSE IF Ch(fmt, i) = "r" /\ i + 2 < Len(fmt) /\ Ch(fmt, i + 1) = "%"
    THEN {<<"r", Ch(fmt, i + 2)>>} \cup PlaceholdersFrom(fmt, i + 3)
    ELSE IF Ch(fmt, i) = "%" /\ i + 1 < Len(fmt)
    THEN {<<"", Ch(fmt, i + 1)>>} \cup PlaceholdersFrom(fmt, i + 2)
    ELSE PlaceholdersFrom(fmt, i + 1)

\* C12: in a run of the decode loop over instructions of the static templates
\* the only exception is struct.error at a truncated tail; every line has a
\* text, "*unk*" without a template; and in every template of the table each
\* placeholder of the format is an operand of the template and each
\* placeholder tagged with r is an operand that is not signed, so that its
\* value is not negative.
C12_OnlyBoundsFatal ==
    /\ err \in {None, Some("struct.error")}
    /\ pc = "fault" => TruncatedAt(offset)
    /\ \A i \in DOMAIN out :
          /\ out[i].text \in STRING
          /\ out[i].insn.template = None => out[i].text = "*unk*"
          /\ out[i].insn.template # None =>
                \A c \in DOMAIN Get(out[i].insn.args) :
                   /\ ~IsFault(Get(out[i].insn.args)[c])
                   /\ <<"r", c>> \in PlaceholdersFrom(Get(out[i].insn.template).args_format, 0)
                         => Get(out[i].insn.args)[c].value >= 0
    /\ \A k \in DOMAIN table :
          LET t == TEMPLATES[table[k]]
          IN  \A ph \in PlaceholdersFrom(t.args_format, 0) :
                 /\ ph[2] \in t.args
                 /\ ph[1] = "r" => ph[2] \notin t.signed_args

\* C12's case: an instruction whose register operands have every bit set and
\* whose signed operand is negative was parsed and rendered
C12_Witness ==
    /\ pc = "done"
    /\ table = StaticTable_r2dasm
    /\ Len(out) = 1
    /\ out[1].text = "l.addi       r31, r31, -0x1"

\* the file position before line i was decoded: where the read of the line
\* before it ended, or where __len__ left it
PositionBefore(i) ==
    IF i = 1 THEN 0 ELSE Min(out[i - 1].offset + 4, Len(file))

\* C13: every instruction decoded is the one decoded from its window alone:
\* its length is the class of the first byte, its raw bytes are the window,
\* its word is the window read big-endian with zeros above it, and the
\* instruction (template and operand values included) and its text are the
\* same as for any other line of the same window, whatever bytes follow the
\* window, wherever the file position was and whatever was decoded before.
C13_WindowDeterminesResult ==
    \A i \in DOMAIN out :
       LET off == out[i].offset
           n   == ClassLen(file[off + 1])
       IN  /\ out[i].insn.length = n
           /\ out[i].insn.raw = WindowAt(off, n)
           /\ \A p \in 0..(WordWidth - 1) :
                 BitAt(out[i].insn.bits, p) = IF p < 8 * n THEN WindowBit(off, n, p) ELSE 0
           /\ out[i].insn = dasm_at(WindowAt(off, n), 0, Deref(table))
           /\ \A j \in DOMAIN out :
                 out[j].raw = out[i].raw =>
                    /\ out[j].insn = out[i].insn
                    /\ out[j].text = out[i].text

\* C13's case: one window with operands decoded twice, followed by different
\* bytes and reached from different file positions
C13_Witness ==
    /\ Len(out) = 2
    /\ table = StaticTable_r2dasm
    /\ out[1].raw = out[2].raw
    /\ out[1].insn.template # None
    /\ Get(out[1].insn.template).args # {}
    /\ PySlice(file, out[1].offset + 2, out[1].offset + 4)
          # PySlice(file, out[2].offset + 2, out[2].offset + 4)
    /\ PositionBefore(1) - out[1].offset # PositionBefore(2) - out[2].offset

RECURSIVE AloneFrom(_, _, _)
\* what dasm over the stream f alone prints from cursor off on, after lines,
\* and how it ends
AloneFrom(f, off, lines) ==
    IF ~(off < Len(f)) THEN [out |-> lines, err |-> None, pc |-> "done"]
    ELSE LET line == LoopBody(f, off, Deref(StaticTable))
         IN  IF IsFault(line)
             THEN [out |-> lines, err |-> Some(line.fault), pc |-> "fault"]
             ELSE AloneFrom(f, off + line.insn.length, Append(lines, line))

Alone(f) == AloneFrom(f, 0, <<>>)

\* a dasm in state d over the stream f is where the run alone passes: its
\* lines begin the lines of the run alone, and once ended it has all of
\* them and the same end
AsAlone(f, d_pc, d_out, d_err) ==
    LET a == Alone(f)
    IN  /\ Len(d_out) <= Len(a.out)
        /\ d_out = SubSeq(a.out, 1, Len(d_out))
        /\ d_pc \in {"done", "fault"} =>
              /\ d_out = a.out
              /\ d_err = a.err
              /\ d_pc = a.pc

\* C14: no step changes the shared table, and each of two dasm whose steps
\* are interleaved in any order prints the lines and ends the way it does
\* when it runs alone over its stream.
C14_InterleavingIndependent ==
    /\ [](AsAlone(file, pc, out, err) /\ AsAlone(peer.file, peer.pc, peer.out, peer.err))
    /\ [][table' = table]_vars

\* C14's case: both dasm are partway through different streams, each having
\* printed a line
C14_Witness ==
    /\ pc = "loop"
    /\ peer.pc = "loop"
    /\ file = <<128, 1, 1>>
    /\ peer.file = <<1, 1, 1>>
    /\ Len(out) = 1
    /\ Len(peer.out) = 1

\* the table in the opposite order
Reversed(t) == [i \in DOMAIN t |-> t[Len(t) + 1 - i]]

\* two templates differ at a position that is fixed in both
DifferAtFixed(t1, t2) ==
    \E p \in 0..(t1.length_bits - 1) :
       /\ BitAt(t1.mask, p) = 1
       /\ BitAt(t2.mask, p) = 1
       /\ BitAt(t1.bits, p) # BitAt(t2.bits, p)

\* C15: any two templates of one length in the static table differ at a
\* position fixed in both; at most one template of the window's length agrees
\* with a decoded window; and the instruction decoded is the one decoded with
\* the table in the opposite order.
C15_NoOverlap ==
    /\ \A j, k \in DOMAIN table :
          (j < k /\ TEMPLATES[table[j]].length = TEMPLATES[table[k]].length)
             => DifferAtFixed(TEMPLATES[table[j]], TEMPLATES[table[k]])
    /\ \A i \in DOMAIN out :
          /\ Cardinality(MatchingAt(out[i].offset)) <= 1
          /\ out[i].insn = dasm_at(out[i].raw, 0, Deref(Reversed(table)))

\* C15's case: a word of a template that shares its leading fixed bits with
\* other templates of its length was decoded, and only that template agrees
C15_Witness ==
    /\ pc = "done"
    /\ table = StaticTable_r2dasm
    /\ Len(out) = 1
    /\ Cardinality(MatchingAt(0)) = 1
    /\ Get(out[1].insn.template).mnemonic = "l.sfeqi"

====
